---- MODULE Spec2Model ----
(***************************************************************************)
(* A model of the masking pipeline of cpp-ds-create: the Unicode string    *)
(* wrapper, Ukkonen's suffix tree, the longest-common-substring extractor  *)
(* built on it, and the consumer that selects labels, checks collisions    *)
(* and substitutes masks in question-answer pairs.                         *)
(*                                                                         *)
(* A std::string is a sequence of bytes (naturals below 256); a Unicode    *)
(* string is a sequence of code points.  Indices keep the base the code    *)
(* uses: std::string positions and UnicodeString indices are 0-based, the  *)
(* suffix tree's left and right pointers are 1-based and inclusive.        *)
(***************************************************************************)
EXTENDS Integers, Sequences, FiniteSets, TLC

(***************************************************************************)
(* Bytes and strings                                                       *)
(***************************************************************************)

\* The byte of a character literal.  "C3" and "A9" are the two bytes of the
\* UTF-8 encoding of U+00E9; "FF" is a byte that no UTF-8 text contains.
Ord(c) ==
    CASE c = " " -> 32
      [] c = "#" -> 35
      [] c = "$" -> 36
      [] c = "&" -> 38
      [] c = "*" -> 42
      [] c = "0" -> 48
      [] c = "1" -> 49
      [] c = "2" -> 50
      [] c = "5" -> 53
      [] c = "P" -> 80
      [] c = "Q" -> 81
      [] c = "_" -> 95
      [] c = "a" -> 97
      [] c = "b" -> 98
      [] c = "c" -> 99
      [] c = "x" -> 120
      [] c = "y" -> 121
      [] c = "~" -> 126
      [] c = "A9" -> 169
      [] c = "C3" -> 195
      [] c = "FF" -> 255

\* The std::string spelled by a tuple of character literals.
Str(cs) == [i \in DOMAIN cs |-> Ord(cs[i])]

Min(S) == CHOOSE x \in S : \A y \in S : x <= y

Max(S) == CHOOSE x \in S : \A y \in S : x >= y

\* operator< of std::string: lexicographic comparison of the bytes.
RECURSIVE StrLess(_, _)
StrLess(a, b) ==
    IF b = <<>> THEN FALSE
    ELSE IF a = <<>> THEN TRUE
    ELSE IF a[1] # b[1] THEN a[1] < b[1]
    ELSE StrLess(Tail(a), Tail(b))

\* The elements of a std::set<std::string> in iteration order.
RECURSIVE SortedStrings(_)
SortedStrings(set) ==
    IF set = {} THEN <<>>
    ELSE LET first == CHOOSE s \in set : \A t \in set \ {s} : StrLess(s, t)
         IN  <<first>> \o SortedStrings(set \ {first})

\* static_cast<int>(std::string::npos)
npos == -1

\* std::string::find(sub, 0): the 0-based position of the first occurrence.
Find(str, sub) ==
    LET hits == { p \in 0..(Len(str) - Len(sub)) :
                    SubSeq(str, p + 1, p + Len(sub)) = sub }
    IN  IF hits = {} THEN npos ELSE Min(hits)

\* std::string::replace(pos, len, to)
Replace(str, pos, len, to) ==
    SubSeq(str, 1, pos) \o to \o SubSeq(str, pos + len + 1, Len(str))

\* Replaces the first occurrence of `original` in `str`; reports whether an
\* occurrence was found.
substring_replacement_success(str, original, replacement) ==
    LET start_pos == Find(str, original)
    IN  IF start_pos = npos
        THEN [success |-> FALSE, str |-> str]
        ELSE [success |-> TRUE,
              str |-> Replace(str, start_pos, Len(original), replacement)]

\* The inclusive 0-based bounds of the first occurrence of sub_str in str.
index_bounds_of_substring_in_string(str, sub_str) ==
    LET pos == Find(str, sub_str)
    IN  IF pos = npos
        THEN [has_value |-> FALSE]
        ELSE [has_value |-> TRUE, first |-> pos,
              second |-> pos + Len(sub_str) - 1]

(***************************************************************************)
(* UnicodeString: UTF-8 decoding and encoding                              *)
(***************************************************************************)

IsAscii(b) == b < 128

IsLead2(b) == b >= 194 /\ b <= 223

IsCont(b) == b >= 128 /\ b <= 191

\* utf8::is_valid over one- and two-byte sequences (the model's strings hold
\* no lead byte of a longer sequence).
RECURSIVE utf8_is_valid(_)
utf8_is_valid(str) ==
    IF str = <<>> THEN TRUE
    ELSE IF IsAscii(str[1]) THEN utf8_is_valid(Tail(str))
    ELSE IF IsLead2(str[1]) /\ Len(str) >= 2 /\ IsCont(str[2])
         THEN utf8_is_valid(Tail(Tail(str)))
    ELSE FALSE

\* The code points of a valid UTF-8 string, as utf8::iterator yields them.
RECURSIVE code_points(_)
code_points(str) ==
    IF str = <<>> THEN <<>>
    ELSE IF IsAscii(str[1]) THEN <<str[1]>> \o code_points(Tail(str))
    ELSE <<(str[1] - 192) * 64 + (str[2] - 128)>>
             \o code_points(Tail(Tail(str)))

\* utf8::utf32to8
RECURSIVE basic_string_from_unicode_string(_)
basic_string_from_unicode_string(cp) ==
    IF cp = <<>> THEN <<>>
    ELSE (IF cp[1] < 128 THEN <<cp[1]>>
          ELSE <<192 + (cp[1] \div 64), 128 + (cp[1] % 64)>>)
         \o basic_string_from_unicode_string(Tail(cp))

\* UnicodeString::index_of_code_point: 0-based; the callers take .value().
index_of_code_point(cp, code_point) ==
    Min({ i \in 0..(Len(cp) - 1) : cp[i + 1] = code_point })

\* UnicodeString::substring(start_index, end_index): [start, end), 0-based.
substring(cp, start_index, end_index) ==
    SubSeq(cp, start_index + 1, end_index)

(***************************************************************************)
(* Explicit states and the auxiliary state                                 *)
(*                                                                         *)
(* A tree is a record: uni_str (the code points), states (the arena of     *)
(* explicit states; a pointer is an index into it), aux_map (the auxiliary *)
(* state's code point -> j map), root (the SuffixTree's root pointer),     *)
(* leaf_right_ptr (the shared right pointer of the leaf transitions) and   *)
(* fault ("none" while the run is well defined).  A transition is          *)
(* [left, right, child]; its right pointer is owned (std::unique_ptr<int>) *)
(* or refers to leaf_right_ptr (a raw int pointer).                        *)
(***************************************************************************)

\* nullptr
NULL == 0

\* The auxiliary state is the first explicit state a tree allocates, and the
\* root it owns the second.
AUX == 1

AUX_ROOT == 2

NoFault == "none"

\* A virtual call through a null pointer, or an out-of-range read.  The call
\* loads the vtable pointer from address 0 before anything else, which traps
\* on every build of this program: the process is killed, nothing is returned.
SegFault == "segv"

\* std::logic_error is thrown.
LogicError == "logic_error"

Faulted(tree, kind) ==
    IF tree.fault = NoFault THEN [tree EXCEPT !.fault = kind] ELSE tree

\* ExplicitState::ExplicitState(parent)
ExplicitState(parent) ==
    [parent |-> parent, transitions |-> <<>>, suffix_link |-> NULL]

Owned(p) == [owned |-> TRUE, val |-> p]

LeafPtr == [owned |-> FALSE, val |-> 0]

\* The integer a right pointer refers to at the time it is read.
right_value(tree, right) ==
    IF right.owned THEN right.val ELSE tree.leaf_right_ptr

\* UnicodeString::code_point_at(index), 0-based.
InRange(tree, index) == index >= 0 /\ index < Len(tree.uni_str)

code_point_at(tree, index) == tree.uni_str[index + 1]

\* The code point -> j map that AuxiliaryState's constructor fills: the loop
\* runs idx from 0 while idx < -length, and a later index overwrites the j
\* of an earlier one with the same code point.
AuxiliaryState(uni_str) ==
    LET bound == -Len(uni_str)
        idxs  == { idx \in 0..(Len(uni_str) - 1) : idx < bound }
        cps   == { uni_str[idx + 1] : idx \in idxs }
    IN  [c \in cps |->
           -(Max({ idx \in idxs : uni_str[idx + 1] = c }) + 1)]

\* AuxiliaryState::has_transition / ExplicitState::has_transition
has_transition(tree, s, code_point) ==
    IF s = AUX THEN code_point \in DOMAIN tree.aux_map
    ELSE code_point \in DOMAIN tree.states[s].transitions

\* weakly_get_transition: [ok, left, right, child].  The auxiliary state
\* throws on a code point it has no pointer for; an ordinary state's
\* operator[] on a missing key yields a null right pointer and child.
weakly_get_transition(tree, s, code_point) ==
    IF s = AUX
    THEN IF code_point \in DOMAIN tree.aux_map
         THEN [ok |-> TRUE, fault |-> NoFault,
               left |-> tree.aux_map[code_point],
               right |-> Owned(tree.aux_map[code_point]),
               child |-> AUX_ROOT]
         ELSE [ok |-> FALSE, fault |-> LogicError,
               left |-> 0, right |-> Owned(0), child |-> NULL]
    ELSE IF code_point \in DOMAIN tree.states[s].transitions
         THEN LET tr == tree.states[s].transitions[code_point]
              IN  [ok |-> TRUE, fault |-> NoFault, left |-> tr.left,
                   right |-> tr.right, child |-> tr.child]
         ELSE [ok |-> FALSE, fault |-> SegFault,
               left |-> 0, right |-> Owned(0), child |-> NULL]

\* AuxiliaryState::state_transition_if_present
state_transition_if_present(tree, code_point) ==
    IF has_transition(tree, AUX, code_point)
    THEN weakly_get_transition(tree, AUX, code_point).child
    ELSE NULL

\* SuffixTree::SuffixTree(str), after the UTF-8 check of UnicodeString(str).
SuffixTree(uni_str) ==
    LET aux  == [ExplicitState(NULL) EXCEPT !.suffix_link = NULL]
        root == [ExplicitState(AUX) EXCEPT !.suffix_link = AUX]
        t0   == [uni_str |-> uni_str,
                 states |-> <<aux, root>>,
                 aux_map |-> AuxiliaryState(uni_str),
                 root |-> NULL,
                 leaf_right_ptr |-> 0,
                 fault |-> NoFault]
    IN  [t0 EXCEPT !.root = state_transition_if_present(t0, uni_str[1])]

\* A set_transition that replaces a transition the state already has under
\* the first code point of the label.
set_transition_overwriting(tree, s, left_ptr, right, child) ==
    IF tree.fault # NoFault THEN tree
    ELSE IF ~InRange(tree, left_ptr - 1) THEN Faulted(tree, SegFault)
    ELSE LET code_point == code_point_at(tree, left_ptr - 1)
             others == (DOMAIN tree.states[s].transitions) \ {code_point}
         IN  [tree EXCEPT !.states[s].transitions =
                 [c \in others |-> @[c]]
                 @@ (code_point :>
                       [left |-> left_ptr, right |-> right,
                        child |-> child])]

\* ExplicitState::set_transition
set_transition(tree, s, left_ptr, right, child) ==
    IF tree.fault # NoFault THEN tree
    ELSE IF ~InRange(tree, left_ptr - 1) THEN Faulted(tree, SegFault)
    ELSE LET code_point == code_point_at(tree, left_ptr - 1)
         IN  IF code_point \in DOMAIN tree.states[s].transitions
             THEN Faulted(tree, LogicError)
             ELSE [tree EXCEPT !.states[s].transitions =
                      @ @@ (code_point :>
                              [left |-> left_ptr, right |-> right,
                               child |-> child])]

\* ExplicitState::set_suffix_link
set_suffix_link(tree, s, next_on_path) ==
    IF tree.fault # NoFault THEN tree
    ELSE [tree EXCEPT !.states[s].suffix_link = next_on_path]

\* ExplicitState::get_suffix_link
get_suffix_link(tree, s) == tree.states[s].suffix_link

\* std::make_unique<ExplicitState>(parent): the new state's pointer.
NewState(tree) == Len(tree.states) + 1

Allocate(tree, parent) ==
    [tree EXCEPT !.states = Append(@, ExplicitState(parent))]

\* ExplicitState::internal_split(uni_str, left_ptr, right_ptr) on state s:
\* [tree, r].
internal_split(tree, s, left_ptr, p) ==
    LET k       == left_ptr
        t_k     == code_point_at(tree, k - 1)
        old     == tree.states[s].transitions[t_k]
        k_prime == old.left
        r       == NewState(tree)
        t1      == Allocate(tree, s)
        t2      == set_transition(t1, r, k_prime + p - k + 1,
                                  old.right, old.child)
        t3      == IF t2.fault # NoFault THEN t2
                   ELSE [t2 EXCEPT !.states[s].transitions =
                           [c \in (DOMAIN @) \ {t_k} |-> @[c]]]
        t4      == set_transition(t3, s, k_prime,
                                  Owned(k_prime + p - k), r)
    IN  [tree |-> t4, r |-> r]

(***************************************************************************)
(* Ukkonen's construction                                                  *)
(***************************************************************************)

\* ReferencePair::canonised for the pair (s, (k, p)): [tree, state, left_ptr].
\* The tree is returned for its fault alone; canonised changes no state.
RECURSIVE canonised_walk(_, _, _, _, _)
canonised_walk(tree, p, out_state, out_left_ptr, transition) ==
    LET left_ptr_prime  == transition.left
        right_ptr_prime == right_value(tree, transition.right)
    IN  IF tree.fault # NoFault \/ ~transition.ok
        THEN [tree |-> Faulted(tree, transition.fault),
              state |-> out_state, left_ptr |-> out_left_ptr]
        ELSE IF (right_ptr_prime - left_ptr_prime) <= (p - out_left_ptr)
        THEN LET new_left  == out_left_ptr
                                + right_ptr_prime - left_ptr_prime + 1
                 new_state == transition.child
             IN  IF new_left <= p
                 THEN IF new_state = NULL \/ ~InRange(tree, new_left - 1)
                      THEN [tree |-> Faulted(tree, SegFault),
                            state |-> new_state, left_ptr |-> new_left]
                      ELSE canonised_walk(tree, p, new_state, new_left,
                               weakly_get_transition(tree, new_state,
                                   code_point_at(tree, new_left - 1)))
                 ELSE [tree |-> tree, state |-> new_state,
                       left_ptr |-> new_left]
        ELSE [tree |-> tree, state |-> out_state, left_ptr |-> out_left_ptr]

canonised(tree, s, k, p) ==
    IF tree.fault # NoFault \/ p < k
    THEN [tree |-> tree, state |-> s, left_ptr |-> k]
    ELSE IF s = NULL \/ ~InRange(tree, k - 1)
    THEN [tree |-> Faulted(tree, SegFault), state |-> s, left_ptr |-> k]
    ELSE canonised_walk(tree, p, s, k,
             weakly_get_transition(tree, s, code_point_at(tree, k - 1)))

\* SuffixTree::test_and_split for the pair (s, (k, p)) and code point t:
\* [tree, end_point, r].
test_and_split(tree, s, k, p, code_point) ==
    IF tree.fault # NoFault
    THEN [tree |-> tree, end_point |-> TRUE, r |-> s]
    ELSE IF s = NULL
    THEN [tree |-> Faulted(tree, SegFault), end_point |-> TRUE, r |-> s]
    ELSE IF k <= p
    THEN IF ~InRange(tree, k - 1)
         THEN [tree |-> Faulted(tree, SegFault), end_point |-> TRUE, r |-> s]
         ELSE
         LET left_cp    == code_point_at(tree, k - 1)
             transition == weakly_get_transition(tree, s, left_cp)
             left_ptr_prime == transition.left
             next_idx   == left_ptr_prime + p - k
         IN  IF ~transition.ok
             THEN [tree |-> Faulted(tree, transition.fault),
                   end_point |-> TRUE, r |-> s]
             ELSE IF ~InRange(tree, next_idx)
             THEN [tree |-> Faulted(tree, SegFault),
                   end_point |-> TRUE, r |-> s]
             ELSE IF code_point = code_point_at(tree, next_idx)
             THEN [tree |-> tree, end_point |-> TRUE, r |-> s]
             ELSE LET split == internal_split(tree, s, left_ptr_prime,
                                              left_ptr_prime + p - k)
                  IN  [tree |-> split.tree, end_point |-> FALSE,
                       r |-> split.r]
    ELSE [tree |-> tree,
          end_point |-> has_transition(tree, s, code_point),
          r |-> s]

\* The while loop of SuffixTree::update and the statements after it.
RECURSIVE update_loop(_, _, _, _, _, _, _)
update_loop(tree, state_s, k, right_ptr, old_root, end_point, r) ==
    LET t_i == code_point_at(tree, right_ptr - 1)
    IN  IF tree.fault # NoFault
        THEN [tree |-> tree, state |-> state_s, left_ptr |-> k]
        ELSE IF end_point
        THEN [tree |-> IF old_root # tree.root
                       THEN set_suffix_link(tree, old_root, state_s)
                       ELSE tree,
              state |-> state_s, left_ptr |-> k]
        ELSE LET r_prime == NewState(tree)
                 t1 == set_transition(Allocate(tree, r), r, right_ptr,
                                      LeafPtr, r_prime)
                 t2 == IF old_root # t1.root
                       THEN set_suffix_link(t1, old_root, r)
                       ELSE t1
                 s_k_pair == canonised(t2, get_suffix_link(t2, state_s),
                                       k, right_ptr - 1)
                 end_point_r == test_and_split(s_k_pair.tree, s_k_pair.state,
                                    s_k_pair.left_ptr, right_ptr - 1, t_i)
             IN  update_loop(end_point_r.tree, s_k_pair.state,
                             s_k_pair.left_ptr, right_ptr, r,
                             end_point_r.end_point, end_point_r.r)

\* SuffixTree::update for the pair (state, (left_ptr, right_ptr)):
\* [tree, state, left_ptr].
update(tree, state, left_ptr, right_ptr) ==
    LET t_i == code_point_at(tree, right_ptr - 1)
        end_point_r == test_and_split(tree, state, left_ptr,
                                      right_ptr - 1, t_i)
    IN  update_loop(end_point_r.tree, state, left_ptr, right_ptr,
                    tree.root, end_point_r.end_point, end_point_r.r)

\* One iteration of the loop of SuffixTree::construct, for the step i it
\* begins: [tree, state, left_ptr].
construct_step(tree, state, left_ptr, i) ==
    LET canonise(update_pair) ==
            canonised(update_pair.tree, update_pair.state,
                      update_pair.left_ptr, i)
    IN  canonise(update([tree EXCEPT !.leaf_right_ptr = @ + 1],
                        state, left_ptr, i))

RECURSIVE construct_loop(_, _, _, _)
construct_loop(tree, state, left_ptr, i) ==
    LET continue(step) ==
            construct_loop(step.tree, step.state, step.left_ptr, i + 1)
    IN  IF tree.fault = NoFault /\ (i + 1) <= Len(tree.uni_str)
        THEN continue(construct_step(tree, state, left_ptr, i + 1))
        ELSE tree

\* SuffixTree::construct
construct(tree) == construct_loop(tree, tree.root, 1, 0)

(***************************************************************************)
(* The longest common substring of two strings                             *)
(***************************************************************************)

UNDETERMINED == "UNDETERMINED"

FIRST == "FIRST"

SECOND == "SECOND"

FIRST_AND_SECOND == "FIRST_AND_SECOND"

\* The candidate separator and end symbols, in the order they are tried.
separator_end_pairs ==
    << <<Ord("_"), Ord("*")>>, <<Ord("_"), Ord("$")>>,
       <<Ord("#"), Ord("$")>>, <<Ord("&"), Ord("~")>> >>

\* The keys of a std::map in iteration order.
RECURSIVE SortedKeys(_)
SortedKeys(set) ==
    IF set = {} THEN <<>>
    ELSE <<Min(set)>> \o SortedKeys(set \ {Min(set)})

is_leaf_state(tree, es) == DOMAIN tree.states[es].transitions = {}

leaf_state_substring_type(leaf_state_range, sep_end_range) ==
    IF leaf_state_range[1] <= sep_end_range[1] THEN FIRST ELSE SECOND

updated_preliminary_state_substring_type(old_type, child_type) ==
    CASE old_type = UNDETERMINED -> child_type
      [] old_type \in {FIRST, SECOND} ->
            IF old_type # child_type THEN FIRST_AND_SECOND ELSE old_type
      [] old_type = FIRST_AND_SECOND -> FIRST_AND_SECOND

\* state_substring_type(es, length, &lcs_length, &lcs_start_index, range):
\* the loop over the transitions `keys` that are still to visit, with the
\* state's preliminary type and the two out-parameters in `acc`.  The result
\* is [type, lcs_length, lcs_start_index, ok]; ok is FALSE when the final
\* assertion fails.
RECURSIVE state_substring_type_loop(_, _, _, _, _, _)
state_substring_type_loop(tree, es, length, sep_end_range, keys, acc) ==
    IF ~acc.ok THEN acc
    ELSE IF keys = <<>>
    THEN [acc EXCEPT !.ok = (acc.type # UNDETERMINED)]
    ELSE
    LET tr         == tree.states[es].transitions[Head(keys)]
        right_ptr  == right_value(tree, tr.right)
        edge       == right_ptr - tr.left + 1
        child      ==
            IF is_leaf_state(tree, tr.child)
            THEN [acc EXCEPT !.type =
                     leaf_state_substring_type(<<tr.left, right_ptr>>,
                                               sep_end_range)]
            ELSE state_substring_type_loop(tree, tr.child, length + edge,
                     sep_end_range,
                     SortedKeys(DOMAIN tree.states[tr.child].transitions),
                     [acc EXCEPT !.type = UNDETERMINED])
        es_type    == updated_preliminary_state_substring_type(acc.type,
                                                               child.type)
        total_length == length + edge
        improves   == es_type = FIRST_AND_SECOND
                      /\ child.type = FIRST_AND_SECOND
                      /\ child.lcs_length < total_length
    IN  state_substring_type_loop(tree, es, length, sep_end_range, Tail(keys),
            [type |-> es_type,
             lcs_length |-> IF improves THEN total_length
                            ELSE child.lcs_length,
             lcs_start_index |-> IF improves
                                 THEN right_ptr - total_length + 1
                                 ELSE child.lcs_start_index,
             ok |-> child.ok])

state_substring_type(tree, es, length, lcs_length, lcs_start_index, sep_end_range) ==
    state_substring_type_loop(tree, es, length, sep_end_range,
        SortedKeys(DOMAIN tree.states[es].transitions),
        [type |-> UNDETERMINED, lcs_length |-> lcs_length,
         lcs_start_index |-> lcs_start_index, ok |-> TRUE])

Occurs(str, byte) == Find(str, <<byte>>) # npos

\* The usable pairs, in the order of separator_end_pairs.
workable_pairs(first, second) ==
    SelectSeq(separator_end_pairs,
              LAMBDA pair : /\ ~Occurs(first, pair[1])
                            /\ ~Occurs(first, pair[2])
                            /\ ~Occurs(second, pair[1])
                            /\ ~Occurs(second, pair[2]))

\* workable_separator_end_symbol_pair: <<>> stands for std::nullopt.
workable_separator_end_symbol_pair(first, second) ==
    IF workable_pairs(first, second) = <<>> THEN <<>>
    ELSE Head(workable_pairs(first, second))

\* What a call that does not return a string ends with.
NoResult(kind, sep_end) ==
    [kind |-> kind, str |-> <<>>, sep_end |-> sep_end,
     sep_idx |-> npos, end_idx |-> npos]

\* longest_common_substring(first, second).  kind is "value" (a string is
\* returned, in str), "nullopt", or the fault that ends the call; sep_end,
\* sep_idx and end_idx are the locals of these names once they are set.
longest_common_substring(first, second) ==
    LET extract(sep_end, uni_concat, sep_idx, end_idx, dfs) ==
            IF ~dfs.ok
            THEN [NoResult("abort", sep_end) EXCEPT
                     !.sep_idx = sep_idx, !.end_idx = end_idx]
            ELSE IF dfs.lcs_length - 1 >= 0
            THEN [kind |-> "value",
                  str |-> basic_string_from_unicode_string(
                             substring(uni_concat,
                                 dfs.lcs_start_index - 1,
                                 dfs.lcs_start_index + dfs.lcs_length - 1)),
                  sep_end |-> sep_end,
                  sep_idx |-> sep_idx, end_idx |-> end_idx]
            ELSE [NoResult("nullopt", sep_end) EXCEPT
                     !.sep_idx = sep_idx, !.end_idx = end_idx]
        traverse(sep_end, uni_concat, tree) ==
            IF tree.fault # NoFault THEN NoResult(tree.fault, sep_end)
            ELSE LET sep_idx == index_of_code_point(uni_concat, sep_end[1])
                     end_idx == index_of_code_point(uni_concat, sep_end[2])
                 IN  extract(sep_end, uni_concat, sep_idx, end_idx,
                         state_substring_type(tree, tree.root, 0, 0, 0,
                             <<sep_idx + 1, end_idx + 1>>))
        build(sep_end, concat) ==
            IF ~utf8_is_valid(concat) THEN NoResult(LogicError, sep_end)
            ELSE traverse(sep_end, code_points(concat),
                          construct(SuffixTree(code_points(concat))))
        with(sep_end) ==
            IF sep_end = <<>> THEN NoResult("nullopt", sep_end)
            ELSE build(sep_end, first \o <<sep_end[1]>> \o second
                                  \o <<sep_end[2]>>)
    IN  with(workable_separator_end_symbol_pair(first, second))

(***************************************************************************)
(* Label matches                                                           *)
(*                                                                         *)
(* A double that is the quotient of two sizes is kept as the pair          *)
(* [num, den]; 0/0 is NaN, which compares false with everything.           *)
(***************************************************************************)

IsNaN(f) == f.num = 0 /\ f.den = 0

\* a > b on doubles
FractionGreater(a, b) ==
    ~IsNaN(a) /\ ~IsNaN(b) /\ a.num * b.den > b.num * a.den

\* a >= b on doubles
FractionAtLeast(a, b) ==
    ~IsNaN(a) /\ ~IsNaN(b) /\ a.num * b.den >= b.num * a.den

\* The body of LabelMatch's constructor once longest_common_substring has
\* returned `lcs`.
LabelMatchFrom(lcs, question, label, ent_or_prp) ==
    LET match  == IF lcs.kind = "value" THEN lcs.str ELSE <<>>
        bounds == index_bounds_of_substring_in_string(question, match)
    IN  [fault |-> IF lcs.kind \notin {"value", "nullopt"} THEN lcs.kind
                   ELSE IF lcs.kind = "value" /\ ~bounds.has_value
                   THEN "bad_optional_access"
                   ELSE NoFault,
         ent_or_prp |-> ent_or_prp,
         match |-> match,
         match_bounds |-> IF lcs.kind = "value" /\ bounds.has_value
                          THEN <<bounds.first, bounds.second>>
                          ELSE <<npos, npos>>,
         chars_matched |-> Len(match),
         fraction_matched |-> [num |-> Len(match), den |-> Len(label)]]

\* LabelMatch::LabelMatch(question, label, ent_or_prp)
LabelMatch(question, label, ent_or_prp) ==
    LabelMatchFrom(longest_common_substring(question, label),
                   question, label, ent_or_prp)

is_better_matching_label_than(this, other) ==
    FractionGreater(this.fraction_matched, other.fraction_matched)

appears_earlier_in_string(first, second) ==
    IF first.match_bounds[1] # second.match_bounds[1]
    THEN first.match_bounds[1] < second.match_bounds[1]
    ELSE first.match_bounds[2] < second.match_bounds[2]

RECURSIVE best_label_match_from(_, _, _)
best_label_match_from(matches, idx, best) ==
    IF idx > Len(matches) THEN best
    ELSE best_label_match_from(matches, idx + 1,
             IF is_better_matching_label_than(matches[idx], best)
             THEN matches[idx] ELSE best)

\* LabelMatch::best_label_match (matches is not empty)
best_label_match(matches) == best_label_match_from(matches, 2, matches[1])

\* The orders std::sort may leave `matches` in: every permutation in which no
\* element appears earlier in the string than one before it.
sorted_label_matches(matches) ==
    { [i \in DOMAIN matches |-> matches[perm[i]]] :
        perm \in { f \in [DOMAIN matches -> DOMAIN matches] :
                     /\ \A i, j \in DOMAIN matches : i # j => f[i] # f[j]
                     /\ \A i, j \in DOMAIN matches :
                          i < j => ~appears_earlier_in_string(
                                       matches[f[j]], matches[f[i]]) } }

\* A collision check that lets a match pass that starts where the one before
\* it ends.
collision_present_beyond_touch(matches) ==
    IF Len(matches) < 2 THEN FALSE
    ELSE \E idx \in 0..(Len(matches) - 2) :
            matches[idx + 1].match_bounds[2]
                > matches[idx + 2].match_bounds[1]

\* A collision check that finds nothing.
collision_never_present(matches) == FALSE

collision_present_in_label_matches(matches) ==
    IF Len(matches) < 2 THEN FALSE
    ELSE \E idx \in 0..(Len(matches) - 2) :
            matches[idx + 1].match_bounds[2]
                >= matches[idx + 2].match_bounds[1]

\* The label matches of the loop of selected_label_for_entity_or_property,
\* up to the first one whose construction does not return.
RECURSIVE label_matches_of(_, _, _, _)
label_matches_of(question, ent_or_prp, labels, done) ==
    IF labels = <<>> \/ (done # <<>> /\ done[Len(done)].fault # NoFault)
    THEN done
    ELSE label_matches_of(question, ent_or_prp, Tail(labels),
             Append(done, LabelMatch(question, Head(labels), ent_or_prp)))

\* selected_label_for_entity_or_property: kind is "label" (the pair
\* (ent_or_prp, match) is returned), "nullopt", or the fault that ends it.
selected_label_for_entity_or_property(question, ent_or_prp, labels, threshold) ==
    LET decide(candidates) ==
            LET last == candidates[Len(candidates)]
                best == best_label_match(candidates)
            IN  IF last.fault # NoFault
                THEN [kind |-> last.fault, match |-> <<>>]
                ELSE IF FractionAtLeast(best.fraction_matched, threshold)
                THEN [kind |-> "label", match |-> best.match]
                ELSE [kind |-> "nullopt", match |-> <<>>]
    IN  IF labels = {} THEN [kind |-> "nullopt", match |-> <<>>]
        ELSE decide(label_matches_of(question, ent_or_prp,
                                     SortedStrings(labels), <<>>))

\* string_set_from_string_vec
string_set_from_string_vec(vec) == { vec[i] : i \in DOMAIN vec }

(***************************************************************************)
(* Entities and properties of an answer                                    *)
(***************************************************************************)

IsDigit(b) == b >= 48 /\ b <= 57

IsQP(b) == b = Ord("Q") \/ b = Ord("P")

\* The length of the run of digits of str that starts at position pos
\* (1-based).
RECURSIVE DigitRun(_, _)
DigitRun(str, pos) ==
    IF pos <= Len(str) /\ IsDigit(str[pos]) THEN 1 + DigitRun(str, pos + 1)
    ELSE 0

\* The matches of the regular expression [QP][0-9]+ in sparql from position
\* pos on, as std::sregex_iterator yields them.
RECURSIVE regex_matches_from(_, _)
regex_matches_from(sparql, pos) ==
    IF pos > Len(sparql) THEN {}
    ELSE IF IsQP(sparql[pos]) /\ DigitRun(sparql, pos + 1) > 0
    THEN {SubSeq(sparql, pos, pos + DigitRun(sparql, pos + 1))}
             \cup regex_matches_from(sparql,
                      pos + 1 + DigitRun(sparql, pos + 1))
    ELSE regex_matches_from(sparql, pos + 1)

entities_and_properties_of_question(sparql) == regex_matches_from(sparql, 1)

\* std::to_string of a counter (the model's counters stay below ten).
to_string(n) == <<48 + n>>

\* wiki_data_symbol_for_entity_or_property
wiki_data_symbol_for_entity_or_property(ent_or_prp) ==
    IF ent_or_prp[1] = Ord("Q") THEN "ENTITY"
    ELSE IF ent_or_prp[1] = Ord("P") THEN "PROPERTY"
    ELSE "invalid_argument"

(***************************************************************************)
(* The state of a run                                                      *)
(***************************************************************************)

VARIABLES
    qa_pairs,                  \* the loaded question-answer pairs
    ent_prp_labels,            \* the loaded labels of entities and properties
    fraction_match_threshold,  \* the threshold, as a fraction
    counter,                   \* how many pairs the driver has been through
    json,                      \* the driver's output object, keyed by UID
    proc,                      \* "running", "returned", or how the run died
    pc,                        \* where the call for the current pair stands
    phase,                     \* per pair: how far its processing has come
    todo,                      \* entities and properties still to be selected
    chosen,                    \* the outcome of the last label selection
    labels_map,                \* the chosen label of each entity and property
    label_matches,             \* the label matches of the current pair
    match_idx,                 \* the label match the masking loop is at
    replaced_q,
    replaced_a,
    ent_counter,
    prp_counter,
    mask_map,
    lcs_first,                 \* the arguments of a call of
    lcs_second,                \*   longest_common_substring
    lcs_result,                \* and what the call ended with
    tree,                      \* a SuffixTree, once it is constructed
    tree_pc,                   \* where the use of that tree stands
    active,                    \* construct(): state, left_ptr and i
    require_labelling,         \* the entities and properties to be labelled
    part_size,                 \* the --part-size of the labelling task
    partitioning,              \* the parts of require_labelling
    count,                     \* how many parts have been labelled and saved
    res_code,                  \* the std::optional response code of a request
    responses,                 \* the response codes the current request got
    slept,                     \* seconds the current request has slept
    saved,                     \* entities and properties with saved labels
    label_pc                   \* where the labelling task stands

vars == <<qa_pairs, ent_prp_labels, fraction_match_threshold, counter, json,
          proc, pc, phase, todo, chosen, labels_map, label_matches, match_idx,
          replaced_q, replaced_a, ent_counter, prp_counter, mask_map,
          lcs_first, lcs_second, lcs_result, tree, tree_pc, active,
          require_labelling, part_size, partitioning, count, res_code,
          responses, slept, saved, label_pc>>

inputs == <<qa_pairs, ent_prp_labels, fraction_match_threshold>>

lcs_vars == <<lcs_first, lcs_second, lcs_result>>

tree_vars == <<tree, tree_pc, active>>

label_vars == <<require_labelling, part_size, partitioning, count, res_code,
                responses, slept, saved, label_pc>>

call_vars == <<todo, chosen, labels_map, label_matches, match_idx,
               replaced_q, replaced_a, ent_counter, prp_counter, mask_map>>

\* The empty std::map and the empty Json::Value.
EmptyMap == <<>>

NoChoice == [ent_or_prp |-> <<>>, kind |-> "none", match |-> <<>>]

NotCalled == [kind |-> "pending", str |-> <<>>, sep_end |-> <<>>,
              sep_idx |-> npos, end_idx |-> npos]

\* The pair the driver's loop is at (counter is 0-based).
qa_pair == qa_pairs[counter + 1]

\* questions_entities_properties.at(qa_pair.uid): the map that was collected
\* from the pairs' answers.
question_entities_properties(pair) ==
    entities_and_properties_of_question(pair.a)

\* What every call of masked_question_answer_pair starts from.
CallStarts ==
    /\ todo = <<>> /\ chosen = NoChoice /\ labels_map = EmptyMap
    /\ label_matches = <<>> /\ match_idx = 0
    /\ replaced_q = <<>> /\ replaced_a = <<>>
    /\ ent_counter = 0 /\ prp_counter = 0 /\ mask_map = EmptyMap

NextCall ==
    /\ todo' = <<>> /\ chosen' = NoChoice /\ labels_map' = EmptyMap
    /\ label_matches' = <<>> /\ match_idx' = 0
    /\ replaced_q' = <<>> /\ replaced_a' = <<>>
    /\ ent_counter' = 0 /\ prp_counter' = 0 /\ mask_map' = EmptyMap

\* map[key] = value on a std::map or a Json::Value.
MapPut(map, key, value) ==
    [k \in DOMAIN map \cup {key} |-> IF k = key THEN value ELSE map[k]]

(***************************************************************************)
(* The batch driver and the masking of one pair, step by step              *)
(***************************************************************************)

\* A step that ends in a thrown exception or a crash ends the process:
\* neither the driver nor main catches anything.
Dies(kind) ==
    /\ proc' = kind
    /\ pc' = "dead"
    /\ UNCHANGED <<inputs, label_vars, tree_vars, counter, json, phase, call_vars, lcs_vars>>

\* masked_question_answer_pairs, the head of the loop: the driver calls
\* masked_question_answer_pair for the next pair, which starts the selection.
Call ==
    /\ proc = "running" /\ pc = "call" /\ counter < Len(qa_pairs)
    /\ todo' = SortedStrings(question_entities_properties(qa_pair))
    /\ pc' = "select"
    /\ UNCHANGED <<inputs, label_vars, tree_vars, counter, json, proc, phase, chosen, labels_map,
                   label_matches, match_idx, replaced_q, replaced_a,
                   ent_counter, prp_counter, mask_map, lcs_vars>>

\* One turn of the loop of selected_labels_for_entities_and_properties.
SelectLabel ==
    /\ proc = "running" /\ pc = "select" /\ todo # <<>>
    /\ \E ent_or_prp \in {Head(todo)} :
       \E label \in {selected_label_for_entity_or_property(qa_pair.q,
                        ent_or_prp,
                        string_set_from_string_vec(
                            ent_prp_labels[ent_or_prp]),
                        fraction_match_threshold)} :
           \/ /\ label.kind = "label"
              /\ chosen' = [ent_or_prp |-> ent_or_prp, kind |-> "label",
                            match |-> label.match]
              /\ labels_map' = MapPut(labels_map, ent_or_prp, label.match)
              /\ todo' = Tail(todo)
              /\ UNCHANGED <<inputs, label_vars, tree_vars, counter, json, proc, pc, phase,
                             label_matches, match_idx, replaced_q,
                             replaced_a, ent_counter, prp_counter, mask_map,
                             lcs_vars>>
           \/ /\ label.kind = "nullopt"
              /\ chosen' = [ent_or_prp |-> ent_or_prp, kind |-> "nullopt",
                            match |-> <<>>]
              /\ phase' = [phase EXCEPT ![counter + 1] = "FAILED"]
              /\ pc' = "failed"
              /\ UNCHANGED <<inputs, label_vars, tree_vars, counter, json, proc, todo, labels_map,
                             label_matches, match_idx, replaced_q,
                             replaced_a, ent_counter, prp_counter, mask_map,
                             lcs_vars>>
           \/ /\ label.kind \notin {"label", "nullopt"}
              /\ Dies(label.kind)

\* selected_labels_for_entities_and_properties returns the map.
LabelsChosen ==
    /\ proc = "running" /\ pc = "select" /\ todo = <<>>
    /\ phase' = [phase EXCEPT ![counter + 1] = "LABELS_CHOSEN"]
    /\ pc' = "build"
    /\ UNCHANGED <<inputs, label_vars, tree_vars, counter, json, proc, call_vars, lcs_vars>>

\* The label matches of the chosen labels, in the order of the map's keys, up
\* to the first one whose construction does not return.
RECURSIVE chosen_label_matches(_, _, _, _)
chosen_label_matches(question, map, keys, done) ==
    IF keys = <<>> \/ (done # <<>> /\ done[Len(done)].fault # NoFault)
    THEN done
    ELSE chosen_label_matches(question, map, Tail(keys),
             Append(done, LabelMatch(question, map[Head(keys)], Head(keys))))

\* masked_question_answer_pair: a label match for every entry of the map.
BuildLabelMatches ==
    /\ proc = "running" /\ pc = "build"
    /\ \E built \in {chosen_label_matches(qa_pair.q, labels_map,
                        SortedStrings(DOMAIN labels_map), <<>>)} :
           IF built # <<>> /\ built[Len(built)].fault # NoFault
           THEN Dies(built[Len(built)].fault)
           ELSE /\ label_matches' = built
                /\ pc' = "sort"
                /\ UNCHANGED <<inputs, label_vars, tree_vars, counter, json, proc, phase, todo,
                               chosen, labels_map, match_idx, replaced_q,
                               replaced_a, ent_counter, prp_counter,
                               mask_map, lcs_vars>>

\* A numbering of the masks that goes on from one pair of the batch to the
\* next.
mask_number_of_batch == counter

\* int ent_counter = 0; int prp_counter = 0;
first_mask_number == 0

\* masked_question_answer_pair: the sort, the collision check, and the
\* locals the masking loop starts from.
SortAndCheck ==
    /\ proc = "running" /\ pc = "sort"
    /\ \E sorted \in sorted_label_matches(label_matches) :
          /\ label_matches' = sorted
          /\ IF collision_present_in_label_matches(sorted)
             THEN /\ phase' = [phase EXCEPT ![counter + 1] = "FAILED"]
                  /\ pc' = "failed"
                  /\ UNCHANGED <<replaced_q, replaced_a, ent_counter,
                                 prp_counter, mask_map>>
             ELSE /\ phase' = [phase EXCEPT
                                  ![counter + 1] = "COLLISION_CLEARED"]
                  /\ replaced_q' = qa_pair.q
                  /\ replaced_a' = qa_pair.a
                  /\ ent_counter' = first_mask_number
                  /\ prp_counter' = first_mask_number
                  /\ mask_map' = EmptyMap
                  /\ pc' = IF sorted = <<>> THEN "return" ELSE "mask_q"
    /\ UNCHANGED <<inputs, label_vars, tree_vars, counter, json, proc, todo, chosen, labels_map,
                   match_idx, lcs_vars>>

\* A masking of the question that takes the number of a new mask from a
\* counter it does not advance.
mask_without_counting(q, match, ent_count, prp_count, masks) ==
    LET known  == match.ent_or_prp \in DOMAIN masks
        symbol == wiki_data_symbol_for_entity_or_property(match.ent_or_prp)
        replacement ==
            IF known THEN masks[match.ent_or_prp]
            ELSE IF symbol = "ENTITY"
            THEN <<Ord("Q")>> \o to_string(ent_count)
            ELSE <<Ord("P")>> \o to_string(prp_count)
    IN  [q |-> substring_replacement_success(q, match.match, replacement).str,
         ent_counter |-> ent_count,
         prp_counter |-> prp_count,
         mask_map |-> IF known THEN masks
                      ELSE MapPut(masks, match.ent_or_prp, replacement)]

\* mask_single_entity_or_property_in_question: the question, the counters
\* and the mask map it leaves behind.
mask_single_entity_or_property_in_question(q, match, ent_count, prp_count, masks) ==
    LET known  == match.ent_or_prp \in DOMAIN masks
        symbol == wiki_data_symbol_for_entity_or_property(match.ent_or_prp)
        replacement ==
            IF known THEN masks[match.ent_or_prp]
            ELSE IF symbol = "ENTITY"
            THEN <<Ord("Q")>> \o to_string(ent_count)
            ELSE <<Ord("P")>> \o to_string(prp_count)
    IN  [q |-> substring_replacement_success(q, match.match, replacement).str,
         ent_counter |-> IF ~known /\ symbol = "ENTITY"
                         THEN ent_count + 1 ELSE ent_count,
         prp_counter |-> IF ~known /\ symbol = "PROPERTY"
                         THEN prp_count + 1 ELSE prp_count,
         mask_map |-> IF known THEN masks
                      ELSE MapPut(masks, match.ent_or_prp, replacement)]

\* mask_single_entity_or_property_in_answer, one evaluation of the condition
\* of its while loop: whether an occurrence was replaced, and the answer.
mask_single_entity_or_property_in_answer(a, match, masks) ==
    IF match.ent_or_prp \notin DOMAIN masks
    THEN [fault |-> "runtime_error", success |-> FALSE, str |-> a]
    ELSE LET replaced == substring_replacement_success(a, match.ent_or_prp,
                             masks[match.ent_or_prp])
         IN  [fault |-> NoFault, success |-> replaced.success,
              str |-> replaced.str]

\* The masking loop of masked_question_answer_pair: the question's turn for
\* the label match the loop is at.
MaskQuestion ==
    /\ proc = "running" /\ pc = "mask_q"
    /\ LET masked == mask_single_entity_or_property_in_question(replaced_q,
                         label_matches[match_idx + 1], ent_counter,
                         prp_counter, mask_map)
       IN  /\ replaced_q' = masked.q
           /\ ent_counter' = masked.ent_counter
           /\ prp_counter' = masked.prp_counter
           /\ mask_map' = masked.mask_map
    /\ pc' = "mask_a"
    /\ UNCHANGED <<inputs, label_vars, tree_vars, counter, json, proc, phase, todo, chosen,
                   labels_map, label_matches, match_idx, replaced_a,
                   lcs_vars>>

\* The masking loop: one replacement in the answer, or, once the identifier
\* is not found any more, the move to the next label match.
MaskAnswer ==
    /\ proc = "running" /\ pc = "mask_a"
    /\ LET masked == mask_single_entity_or_property_in_answer(replaced_a,
                         label_matches[match_idx + 1], mask_map)
       IN  IF masked.fault # NoFault THEN Dies(masked.fault)
           ELSE /\ replaced_a' = masked.str
                /\ match_idx' = IF masked.success THEN match_idx
                                ELSE match_idx + 1
                /\ pc' = IF masked.success THEN "mask_a"
                         ELSE IF match_idx + 1 < Len(label_matches)
                         THEN "mask_q" ELSE "return"
                /\ UNCHANGED <<inputs, label_vars, tree_vars, counter, json, proc, phase, todo,
                               chosen, labels_map, label_matches,
                               replaced_q, ent_counter, prp_counter,
                               mask_map, lcs_vars>>

\* masked_question_answer_pair returns the masked pair; the driver stores it
\* under the pair's UID and moves on.
ReturnMasked ==
    /\ proc = "running" /\ pc = "return"
    /\ phase' = [phase EXCEPT ![counter + 1] = "MASKED"]
    /\ json' = MapPut(json, qa_pair.uid,
                      [q |-> replaced_q, a |-> replaced_a])
    /\ counter' = counter + 1
    /\ pc' = "call"
    /\ NextCall
    /\ UNCHANGED <<inputs, label_vars, tree_vars, proc, lcs_vars>>

\* masked_question_answer_pair returns a null value; the driver moves on.
ReturnNull ==
    /\ proc = "running" /\ pc = "failed"
    /\ counter' = counter + 1
    /\ pc' = "call"
    /\ NextCall
    /\ UNCHANGED <<inputs, label_vars, tree_vars, json, proc, phase, lcs_vars>>

\* masked_question_answer_pairs returns the JSON object.
ReturnJson ==
    /\ proc = "running" /\ pc = "call" /\ counter = Len(qa_pairs)
    /\ proc' = "returned"
    /\ pc' = "done"
    /\ UNCHANGED <<inputs, label_vars, tree_vars, counter, json, phase, call_vars, lcs_vars>>

(***************************************************************************)
(* Runs of the masking task                                                *)
(***************************************************************************)

\* How many pairs a batch holds at most.
MaxBatch == 2

Q0 == Str(<<"Q", "0">>)

Q1 == Str(<<"Q", "1">>)

Q2 == Str(<<"Q", "2">>)

Q25 == Str(<<"Q", "2", "5">>)

P1 == Str(<<"P", "1">>)

\* A question-answer pair of the dataset; pairs differ in their UIDs.
QuestionAnswerPair(uid, q, a) == [uid |-> uid, q |-> q, a |-> a]

\* The questions and answers batches are made of: a label that is found in
\* the question, a question in which every candidate separator or terminator
\* occurs, answers with no, one and two identifiers, a question that is not
\* UTF-8, an identifier that is itself a mask.
Dataset ==
    << QuestionAnswerPair(1, Str(<<"a", "b">>), Q1),
       QuestionAnswerPair(2, Str(<<"_", "$", "&">>), Q1),
       QuestionAnswerPair(3, Str(<<"_", "$", "&">>),
                          Q1 \o Str(<<" ">>) \o P1),
       QuestionAnswerPair(4, Str(<<"a">>), Str(<<"x">>)),
       QuestionAnswerPair(5, Str(<<"a", "FF">>), Q1),
       QuestionAnswerPair(6, Str(<<"a">>), Q2),
       QuestionAnswerPair(7, Str(<<"a">>), P1),
       QuestionAnswerPair(8, Str(<<"_", "$", "&">>), Q0) >>

\* The label maps a run may load: every identifier of the dataset has an
\* entry, possibly without labels.
LabelMaps ==
    { (Q0 :> <<Str(<<"a", "b">>)>>)
        @@ (Q1 :> <<Str(<<"a", "b">>), Str(<<"b">>)>>)
        @@ (Q2 :> q2_labels)
        @@ (P1 :> <<Str(<<"_", "$", "&">>)>>) :
      q2_labels \in { <<>>, <<Str(<<"a">>)>> } }

Thresholds ==
    { [num |-> 0, den |-> 1], [num |-> 1, den |-> 2], [num |-> 1, den |-> 1] }

\* The batches of at most `most` pairs of `dataset`, no pair twice.
Batches(dataset, most) ==
    { [i \in DOMAIN order |-> dataset[order[i]]] :
        order \in { o \in UNION { [1..n -> DOMAIN dataset] : n \in 1..most } :
                      \A i, j \in DOMAIN o : i # j => o[i] # o[j] } }

\* The driver has loaded its inputs and is at the head of its loop.
DriverStarts ==
    /\ counter = 0
    /\ json = EmptyMap
    /\ proc = "running"
    /\ pc = "call"
    /\ phase = [i \in DOMAIN qa_pairs |-> "PENDING"]
    /\ CallStarts

NoLcsCall ==
    /\ lcs_first = <<>> /\ lcs_second = <<>> /\ lcs_result = NotCalled

\* No SuffixTree is used on its own.
NoTree ==
    /\ tree = <<>> /\ tree_pc = "idle" /\ active = <<>>

\* std::nullopt, and a std::optional that holds a value.
nullopt == [has_value |-> FALSE, value |-> 0]

Some(v) == [has_value |-> TRUE, value |-> v]

\* The labelling task is not run.
NoLabelling ==
    /\ require_labelling = {} /\ part_size = 0 /\ partitioning = <<>>
    /\ count = 0 /\ res_code = nullopt /\ responses = <<>> /\ slept = 0
    /\ saved = {} /\ label_pc = "idle"

Init ==
    /\ qa_pairs \in Batches(Dataset, MaxBatch)
    /\ ent_prp_labels \in LabelMaps
    /\ fraction_match_threshold \in Thresholds
    /\ DriverStarts
    /\ NoLcsCall
    /\ NoTree
    /\ NoLabelling

Next ==
    \/ Call
    \/ SelectLabel
    \/ LabelsChosen
    \/ BuildLabelMatches
    \/ SortAndCheck
    \/ MaskQuestion
    \/ MaskAnswer
    \/ ReturnMasked
    \/ ReturnNull
    \/ ReturnJson

Spec == Init /\ [][Next]_vars

(***************************************************************************)
(* Calls of longest_common_substring on their own                          *)
(***************************************************************************)

\* How long the generated arguments are at most.
MaxLcsLen == 2

LcsAlphabet == { Ord("a"), Ord("b"), Ord("_"), Ord("$") }

\* Arguments beyond the generated ones: a two-byte code point, a byte that is
\* not UTF-8, every candidate separator or terminator, a '#' on both sides.
LcsSpecial ==
    { Str(<<"C3", "A9", "a">>), Str(<<"x", "C3", "A9">>),
      Str(<<"a", "FF">>), Str(<<"_", "$", "&">>),
      Str(<<"x", "#", "y">>), Str(<<"y", "#", "x">>) }

LcsStrings ==
    UNION { [1..n -> LcsAlphabet] : n \in 0..MaxLcsLen } \cup LcsSpecial

\* No batch is being processed.
NoDriver ==
    /\ qa_pairs = <<>>
    /\ ent_prp_labels = EmptyMap
    /\ fraction_match_threshold = [num |-> 0, den |-> 1]
    /\ counter = 0
    /\ json = EmptyMap
    /\ proc = "idle"
    /\ pc = "lcs"
    /\ phase = <<>>
    /\ CallStarts

InitLCS ==
    /\ lcs_first \in LcsStrings
    /\ lcs_second \in LcsStrings
    /\ lcs_result = NotCalled
    /\ NoDriver
    /\ NoTree
    /\ NoLabelling

\* longest_common_substring(lcs_first, lcs_second) runs to its end.
CallLongestCommonSubstring ==
    /\ pc = "lcs" /\ lcs_result = NotCalled
    /\ lcs_result' = longest_common_substring(lcs_first, lcs_second)
    /\ UNCHANGED <<inputs, label_vars, tree_vars, counter, json, proc, pc, phase, call_vars,
                   lcs_first, lcs_second>>

NextLCS == CallLongestCommonSubstring

SpecLCS == InitLCS /\ [][NextLCS]_vars

(***************************************************************************)
(* The masking of pairs whose labels have been matched                     *)
(*                                                                         *)
(* Here the outcome of the label selection is any outcome that             *)
(* longest_common_substring's contract allows: for each entity or property *)
(* of the pair, the chosen label is a substring of the question, found at  *)
(* its first occurrence, or empty.  The sort, the collision check, the     *)
(* masking loop and the driver are the steps above.                        *)
(***************************************************************************)

\* How many pairs a batch of matched pairs holds at most.
MaxMaskBatch == 2

MaskDataset ==
    << QuestionAnswerPair(1, Str(<<"a", "0">>), Q1 \o Str(<<" ">>) \o Q2),
       QuestionAnswerPair(2, Str(<<"a", "b">>), Q2 \o Str(<<" ">>) \o Q25),
       QuestionAnswerPair(3, Str(<<"a", "b", "c">>),
                          Q1 \o Str(<<" ">>) \o P1 \o Str(<<" ">>) \o Q2),
       QuestionAnswerPair(4, Str(<<"a", "b", "a">>),
                          P1 \o Str(<<" ">>) \o Q1) >>

\* The labels that can be chosen for a question: its substrings, and the
\* empty label of an entity or property that matched nothing.
Matchable(question) ==
    { SubSeq(question, i, j) : i \in 1..Len(question),
                               j \in 0..Len(question) }

\* What longest_common_substring(question, label) is documented to return
\* for a label out of Matchable(question).
documented_lcs(question, label) ==
    IF label = <<>> THEN NoResult("nullopt", <<>>)
    ELSE [NoResult("value", <<>>) EXCEPT !.str = label]

\* masked_question_answer_pair up to its label matches, for any choice of
\* labels.
MatchLabels ==
    /\ proc = "running" /\ pc = "select"
    /\ \E map \in [string_set_from_string_vec(todo) -> Matchable(qa_pair.q)] :
          /\ labels_map' = map
          /\ label_matches' =
                [i \in DOMAIN todo |->
                    LabelMatchFrom(documented_lcs(qa_pair.q, map[todo[i]]),
                                   qa_pair.q, map[todo[i]], todo[i])]
    /\ todo' = <<>>
    /\ phase' = [phase EXCEPT ![counter + 1] = "LABELS_CHOSEN"]
    /\ pc' = "sort"
    /\ UNCHANGED <<inputs, label_vars, tree_vars, counter, json, proc, chosen, match_idx,
                   replaced_q, replaced_a, ent_counter, prp_counter,
                   mask_map, lcs_vars>>

InitMask ==
    /\ qa_pairs \in Batches(MaskDataset, MaxMaskBatch)
    /\ ent_prp_labels = EmptyMap
    /\ fraction_match_threshold \in Thresholds
    /\ DriverStarts
    /\ NoLcsCall
    /\ NoTree
    /\ NoLabelling

NextMask ==
    \/ Call
    \/ MatchLabels
    \/ SortAndCheck
    \/ MaskQuestion
    \/ MaskAnswer
    \/ ReturnMasked
    \/ ReturnNull
    \/ ReturnJson

SpecMask == InitMask /\ [][NextMask]_vars

\* A call of masked_question_answer_pair that is under way goes on: the
\* process is not stopped from outside.
SpecMaskFair == SpecMask /\ WF_vars(NextMask)

(***************************************************************************)
(* A SuffixTree on its own: its constructor, construct(), and calls of     *)
(* ExplicitState::set_transition on the states it owns                     *)
(***************************************************************************)

\* How many code points the string of the tree has at most.
MaxTreeLen == 3

\* How many explicit states direct calls of set_transition build at most.
MaxApiStates == 4

TreeAlphabet == { Ord("a"), Ord("b"), Ord("$") }

\* The strings a tree is made of, as code points; none is empty, as the
\* string longest_common_substring builds never is.
TreeStrings == UNION { [1..n -> TreeAlphabet] : n \in 1..MaxTreeLen }

\* The right pointers a caller of set_transition can pass: the shared
\* pointer of the leaves, or an integer of its own.
RightPointers(uni_str) == {LeafPtr} \cup { Owned(p) : p \in 1..Len(uni_str) }

\* SuffixTree tree(str) has run; nothing else has.
InitTree ==
    /\ tree \in { SuffixTree(uni_str) : uni_str \in TreeStrings }
    /\ tree_pc = "constructed"
    /\ active = <<>>
    /\ NoDriver
    /\ NoLcsCall
    /\ NoLabelling

\* tree.construct() is called: its locals are set.
Construct ==
    /\ tree_pc = "constructed"
    /\ tree_pc' = "construct"
    /\ active' = [state |-> tree.root, left_ptr |-> 1, i |-> 0]
    /\ UNCHANGED <<inputs, label_vars, counter, json, proc, pc, phase, call_vars,
                   lcs_vars, tree>>

\* One iteration of the loop of construct(); after the last one, construct()
\* returns.
ConstructStep ==
    /\ tree_pc = "construct"
    /\ tree.fault = NoFault
    /\ (active.i + 1) <= Len(tree.uni_str)
    /\ \E step \in { construct_step(tree, active.state, active.left_ptr,
                                    active.i + 1) } :
          /\ tree' = step.tree
          /\ active' = [state |-> step.state, left_ptr |-> step.left_ptr,
                        i |-> active.i + 1]
          /\ tree_pc' = IF step.tree.fault = NoFault
                           /\ active.i + 1 = Len(tree.uni_str)
                        THEN "constructed_all" ELSE "construct"
    /\ UNCHANGED <<inputs, label_vars, counter, json, proc, pc, phase, call_vars,
                   lcs_vars>>

\* state->set_transition(uni_str, left_ptr, right_ptr, child) is called on a
\* state the tree owns, with a child that was just made; `active` keeps the
\* arguments of the call.
CallSetTransition ==
    /\ tree_pc \in {"constructed", "set_transition"}
    /\ tree.fault = NoFault
    /\ Len(tree.states) < MaxApiStates
    /\ \E s \in 2..Len(tree.states), left_ptr \in 1..Len(tree.uni_str),
          right \in RightPointers(tree.uni_str) :
          /\ tree' = set_transition(Allocate(tree, s), s, left_ptr, right,
                                    NewState(tree))
          /\ active' = [state |-> s, left_ptr |-> left_ptr, i |-> 0]
    /\ tree_pc' = "set_transition"
    /\ UNCHANGED <<inputs, label_vars, counter, json, proc, pc, phase, call_vars,
                   lcs_vars>>

NextTree ==
    \/ Construct
    \/ ConstructStep
    \/ CallSetTransition

SpecTree == InitTree /\ [][NextTree]_vars

\* A call that is under way goes on: the process is not stopped from
\* outside.
SpecTreeFair ==
    SpecTree /\ WF_vars(Construct) /\ WF_vars(ConstructStep)

(***************************************************************************)
(* The labelling task: the entities and properties that need labels are    *)
(* partitioned, and for each part the labels are requested from WikiData   *)
(* and saved                                                               *)
(***************************************************************************)

\* The largest --part-size that is tried, and the most requests a part is
\* followed through.
MaxPartSize == 4

MaxRequests == 3

\* The entities and properties that can need labels.
LabelIdentifiers == {Q1, Q2, Q25, P1}

\* The response codes WikiData answers with.
ResponseCodes == {200, 429, 404, 500}

too_many_requests_seconds_to_wait == 5

query_interval_seconds_to_wait == 3

\* count % part_size.  With part_size = 0 the operation is undefined; where
\* the division does not trap, it leaves the dividend.
remainder(dividend, divisor) ==
    IF divisor = 0 THEN dividend ELSE dividend % divisor

\* The loop of entity_property_partitioning over the set in its order.
RECURSIVE partitioning_loop(_, _, _, _)
partitioning_loop(elems, size, cnt, parts) ==
    IF cnt = Len(elems) THEN parts
    ELSE LET begun == IF remainder(cnt, size) = 0
                      THEN Append(parts, {}) ELSE parts
         IN  partitioning_loop(elems, size, cnt + 1,
                 [begun EXCEPT ![Len(begun)] = @ \cup {elems[cnt + 1]}])

\* entity_property_partitioning(ent_prp_set, part_size): the ways the call
\* can end.  A part size of 0 with a set that is not empty divides by zero:
\* the process is ended by the trap, or the division leaves the dividend.
entity_property_partitioning(ent_prp_set, size) ==
    LET made == [fault |-> "none",
                 partitioning |-> partitioning_loop(
                     SortedStrings(ent_prp_set), size, 0, <<>>)]
    IN  IF size < 0 \/ size > Cardinality(ent_prp_set)
        THEN {[fault |-> "invalid_argument", partitioning |-> <<>>]}
        ELSE IF size = 0 /\ ent_prp_set # {}
        THEN {[fault |-> "sigfpe", partitioning |-> <<>>], made}
        ELSE {made}

\* A loop that would send the request again after whatever response.
any_response(code) == code.has_value

\* The response code that lets the request be sent again, after a wait.
asks_to_wait(code) == code.has_value /\ code.value = 429

\* The labelling task has its arguments; nothing has run.
InitLabel ==
    /\ require_labelling \in SUBSET LabelIdentifiers
    /\ part_size \in (-1)..MaxPartSize
    /\ partitioning = <<>> /\ count = 0 /\ res_code = nullopt
    /\ responses = <<>> /\ slept = 0 /\ saved = {}
    /\ label_pc = "start"
    /\ NoDriver
    /\ NoLcsCall
    /\ NoTree

\* label_entity_property_partitions_backend up to its loop.
Partition ==
    /\ label_pc = "start"
    /\ \E made \in entity_property_partitioning(require_labelling,
                                                 part_size) :
          /\ partitioning' = made.partitioning
          /\ label_pc' = IF made.fault # "none" THEN made.fault
                         ELSE IF made.partitioning = <<>> THEN "returned"
                         ELSE "part"
    /\ UNCHANGED <<inputs, tree_vars, counter, json, proc, pc, phase,
                   call_vars, lcs_vars, require_labelling, part_size, count,
                   res_code, responses, slept, saved>>

\* entity_and_property_labels_of_part(part, language) up to the loop of
\* perform_wikidata_entity_and_property_labels_request.
LabelPart ==
    /\ label_pc = "part"
    /\ res_code' = nullopt
    /\ responses' = <<>>
    /\ slept' = 0
    /\ label_pc' = "perform"
    /\ UNCHANGED <<inputs, tree_vars, counter, json, proc, pc, phase,
                   call_vars, lcs_vars, require_labelling, part_size,
                   partitioning, count, saved>>

\* The top of the loop with a response code that is not 200: the wait
\* after 429, or the std::runtime_error.
JudgeResponse ==
    /\ label_pc = "again"
    /\ IF asks_to_wait(res_code)
       THEN /\ slept' = slept + too_many_requests_seconds_to_wait
            /\ label_pc' = "perform"
       ELSE /\ res_code.has_value
            /\ label_pc' = "runtime_error"
            /\ UNCHANGED slept
    /\ UNCHANGED <<inputs, tree_vars, counter, json, proc, pc, phase,
                   call_vars, lcs_vars, require_labelling, part_size,
                   partitioning, count, res_code, responses, saved>>

\* request.perform(), the response code, and the loop's condition.
PerformRequest ==
    /\ label_pc = "perform"
    /\ Len(responses) < MaxRequests
    /\ \E code \in ResponseCodes :
          /\ res_code' = Some(code)
          /\ responses' = Append(responses, code)
          /\ label_pc' = IF code # 200 THEN "again" ELSE "received"
    /\ UNCHANGED <<inputs, tree_vars, counter, json, proc, pc, phase,
                   call_vars, lcs_vars, require_labelling, part_size,
                   partitioning, count, slept, saved>>

\* request.perform() throws: the request could not be carried out.
PerformFails ==
    /\ label_pc = "perform"
    /\ label_pc' = "curl_error"
    /\ UNCHANGED <<inputs, tree_vars, counter, json, proc, pc, phase,
                   call_vars, lcs_vars, require_labelling, part_size,
                   partitioning, count, res_code, responses, slept, saved>>

\* The wait after the loop and the return; the labels of the part are
\* saved, and the backend's loop goes to the next part.
ReturnFromRequest ==
    /\ label_pc = "received"
    /\ slept' = slept + query_interval_seconds_to_wait
    /\ saved' = saved \cup partitioning[count + 1]
    /\ count' = count + 1
    /\ label_pc' = IF count + 1 = Len(partitioning) THEN "returned"
                   ELSE "part"
    /\ UNCHANGED <<inputs, tree_vars, counter, json, proc, pc, phase,
                   call_vars, lcs_vars, require_labelling, part_size,
                   partitioning, res_code, responses>>

NextLabel ==
    \/ Partition
    \/ LabelPart
    \/ JudgeResponse
    \/ PerformRequest
    \/ PerformFails
    \/ ReturnFromRequest

SpecLabel == InitLabel /\ [][NextLabel]_vars

(***************************************************************************)
(* Properties                                                              *)
(***************************************************************************)

\* The non-empty contiguous substrings of a sequence.
Substrings(seq) ==
    { SubSeq(seq, i, j) : i \in 1..Len(seq), j \in 1..Len(seq) } \ {<<>>}

\* The non-empty sequences of code points that occur in both strings.
CommonSubstrings(a, b) ==
    Substrings(code_points(a)) \cap Substrings(code_points(b))

\* A call of longest_common_substring has ended, in whichever way.
LcsCalled == lcs_result # NotCalled

\* Both strings are UTF-8 and some candidate pair is usable for them.
Usable(a, b) ==
    /\ utf8_is_valid(a) /\ utf8_is_valid(b)
    /\ \E i \in DOMAIN separator_end_pairs :
          \A byte \in { separator_end_pairs[i][1],
                        separator_end_pairs[i][2] } :
             ~Occurs(a, byte) /\ ~Occurs(b, byte)

LcsUsable == Usable(lcs_first, lcs_second)

\* C1: for non-empty strings a and b with a usable separator pair that
\* share some code point, longest_common_substring(a, b) returns a string
\* that is a substring of a and of b and is as long, in code points, as
\* their longest common substring.
C1_LcsCorrect ==
    ( /\ LcsCalled /\ LcsUsable
      /\ lcs_first # <<>> /\ lcs_second # <<>>
      /\ CommonSubstrings(lcs_first, lcs_second) # {} )
    => /\ lcs_result.kind = "value"
       /\ code_points(lcs_result.str)
             \in CommonSubstrings(lcs_first, lcs_second)
       /\ \A u \in CommonSubstrings(lcs_first, lcs_second) :
             Len(u) <= Len(code_points(lcs_result.str))

\* The first pair of the list neither of whose symbols occurs in a or b.
FirstUsablePair(a, b) ==
    LET usable == { i \in DOMAIN separator_end_pairs :
                      \A byte \in { separator_end_pairs[i][1],
                                    separator_end_pairs[i][2] } :
                         ~Occurs(a, byte) /\ ~Occurs(b, byte) }
    IN  separator_end_pairs[Min(usable)]

\* How often a code point occurs in a sequence of code points.
Count(seq, code_point) ==
    Cardinality({ i \in DOMAIN seq : seq[i] = code_point })

\* C10: when some candidate pair is usable for A and B,
\* longest_common_substring selects the first such pair of the list
\* ('_','*'), ('_','$'), ('#','$'), ('&','~'); separator and terminator
\* each occur once in C = A sep B end, and the recorded indices of the
\* separator and the terminator are |A| and |A| + |B| + 1 in code points.
C10_SeparatorPair ==
    (LcsCalled /\ LcsUsable) =>
       LET pair == FirstUsablePair(lcs_first, lcs_second)
           c    == code_points(lcs_first) \o <<pair[1]>>
                      \o code_points(lcs_second) \o <<pair[2]>>
       IN  /\ separator_end_pairs =
                 << <<Ord("_"), Ord("*")>>, <<Ord("_"), Ord("$")>>,
                    <<Ord("#"), Ord("$")>>, <<Ord("&"), Ord("~")>> >>
           /\ lcs_result.sep_end = pair
           /\ Count(c, pair[1]) = 1 /\ Count(c, pair[2]) = 1
           /\ lcs_result.sep_idx = Len(code_points(lcs_first))
           /\ lcs_result.end_idx = Len(code_points(lcs_first))
                                     + Len(code_points(lcs_second)) + 1

\* The masking loop of the current pair has gone through every label match
\* and the masked pair is about to be returned.
MaskingDone == proc = "running" /\ pc = "return"

\* q with the range of each of matches[1..i] replaced by the mask of its
\* entity or property; the ranges ascend, so the last is replaced first.
RECURSIVE RangesReplaced(_, _, _, _)
RangesReplaced(q, matches, masks, i) ==
    IF i = 0 THEN q
    ELSE RangesReplaced(
             Replace(q, matches[i].match_bounds[1],
                     matches[i].match_bounds[2]
                        - matches[i].match_bounds[1] + 1,
                     masks[matches[i].ent_or_prp]),
             matches, masks, i - 1)

\* C2: when a pair has been masked and every chosen label is non-empty, the
\* masked question is the original question with the range of every label
\* match replaced by the mask of its identifier and every character outside
\* the ranges kept in place; no replacement lands in a mask inserted before.
C2_MaskingFidelity ==
    ( /\ MaskingDone
      /\ \A i \in DOMAIN label_matches : label_matches[i].match # <<>> )
    => replaced_q = RangesReplaced(qa_pair.q, label_matches, mask_map,
                                   Len(label_matches))

\* The answer with every identifier that has a mask replaced by that mask,
\* an identifier being a whole match of [QP][0-9]+ from position pos on.
RECURSIVE IdentifiersReplaced(_, _, _)
IdentifiersReplaced(a, masks, pos) ==
    IF pos > Len(a) THEN <<>>
    ELSE IF IsQP(a[pos]) /\ DigitRun(a, pos + 1) > 0
    THEN LET identifier == SubSeq(a, pos, pos + DigitRun(a, pos + 1))
         IN  (IF identifier \in DOMAIN masks THEN masks[identifier]
              ELSE identifier)
                \o IdentifiersReplaced(a, masks, pos + Len(identifier))
    ELSE <<a[pos]>> \o IdentifiersReplaced(a, masks, pos + 1)

\* C3: when a pair has been masked, every occurrence of a chosen identifier
\* in the raw answer has been replaced by the mask of that identifier, also
\* when one identifier is a prefix of another, and the rest of the answer is
\* unchanged.
C3_AnswerMasking ==
    MaskingDone => replaced_a = IdentifiersReplaced(qa_pair.a, mask_map, 1)

\* The ranges of two label matches share no index.
Disjoint(m, n) ==
    m.match_bounds[2] < n.match_bounds[1]
       \/ n.match_bounds[2] < m.match_bounds[1]

\* The collision check of the current pair has been made.
CollisionChecked == proc = "running" /\ pc \in {"mask_q", "mask_a", "return"}

\* C4: a pair is masked only if the ranges of all its label matches are
\* pairwise disjoint in the original question, and a pair whose sorted label
\* matches hold a neighbour that ends at or after the start of the next one
\* is skipped.
C4_CollisionFreedom ==
    /\ CollisionChecked =>
          \A i, j \in DOMAIN label_matches :
             i # j => Disjoint(label_matches[i], label_matches[j])
    /\ ( /\ proc = "running" /\ pc \in {"mask_q", "mask_a", "return", "failed"}
         /\ \E i \in DOMAIN label_matches :
               /\ i + 1 \in DOMAIN label_matches
               /\ label_matches[i].match_bounds[2]
                     >= label_matches[i + 1].match_bounds[1] )
       => phase[counter + 1] = "FAILED"

\* Three label matches have passed the collision check and been masked.
C4_Witness ==
    /\ MaskingDone
    /\ Len(label_matches) = 3
    /\ \A i \in DOMAIN label_matches : label_matches[i].match # <<>>

\* The mask of the i-th label match: the first letter of its identifier and
\* the number of earlier label matches whose identifier has that letter.
NumberedMask(matches, i) ==
    <<matches[i].ent_or_prp[1]>>
       \o to_string(Cardinality({ k \in 1..(i - 1) :
             matches[k].ent_or_prp[1] = matches[i].ent_or_prp[1] }))

\* C7: when a pair has been masked, its label matches ascend by start index,
\* the j-th identifier with a 'Q' has the mask Qj and the j-th with a 'P'
\* the mask Pj, counted from 0 within the pair; every identifier has one
\* mask and no two identifiers share one.
C7_MaskNumbering ==
    MaskingDone =>
       /\ \A i, j \in DOMAIN label_matches :
             i < j => label_matches[i].match_bounds[1]
                         < label_matches[j].match_bounds[1]
       /\ DOMAIN mask_map =
             { label_matches[i].ent_or_prp : i \in DOMAIN label_matches }
       /\ \A i \in DOMAIN label_matches :
             /\ label_matches[i].ent_or_prp[1] \in {Ord("Q"), Ord("P")}
             /\ mask_map[label_matches[i].ent_or_prp]
                   = NumberedMask(label_matches, i)
       /\ \A e, f \in DOMAIN mask_map : e # f => mask_map[e] # mask_map[f]

\* The second pair of a batch has been masked with two entities and a
\* property.
C7_Witness ==
    /\ MaskingDone
    /\ counter = 1
    /\ mask_map = (Q1 :> Str(<<"Q", "0">>)) @@ (P1 :> Str(<<"P", "0">>))
                     @@ (Q2 :> Str(<<"Q", "1">>))

\* The labels of an entity or property in the order in which
\* selected_label_for_entity_or_property goes through them.
LabelsOf(ent_or_prp) ==
    SortedStrings(string_set_from_string_vec(ent_prp_labels[ent_or_prp]))

\* The length in code points of the longest common substring of two strings,
\* 0 if they share no code point.
LcsLength(a, b) ==
    IF CommonSubstrings(a, b) = {} THEN 0
    ELSE Max({ Len(u) : u \in CommonSubstrings(a, b) })

\* The score of a label against a question.
Score(question, label) ==
    [num |-> LcsLength(question, label), den |-> Len(code_points(label))]

\* The first label, in iteration order, whose score no label exceeds.
BestLabel(question, labels) ==
    labels[Min({ i \in DOMAIN labels :
                   \A j \in DOMAIN labels :
                      ~FractionGreater(Score(question, labels[j]),
                                       Score(question, labels[i])) })]

\* The selection of a label for the next entity or property of the current
\* pair did not return.
SelectionDied ==
    /\ proc \notin {"running", "returned"}
    /\ phase[counter + 1] = "PENDING"
    /\ todo # <<>>

\* C5: for an identifier each of whose labels is UTF-8 and has a usable
\* separator pair with the question, the selection returns; it accepts the
\* identifier exactly when the highest score |LCS|/|label| of its labels is
\* at least the threshold, and the chosen text is then the longest common
\* substring of the question and the first label with that score.
C5_BestLabel ==
    /\ ~( /\ SelectionDied
          /\ \A i \in DOMAIN LabelsOf(Head(todo)) :
                Usable(qa_pair.q, LabelsOf(Head(todo))[i]) )
    /\ ( /\ proc = "running"
         /\ chosen.kind \in {"label", "nullopt"}
         /\ LabelsOf(chosen.ent_or_prp) # <<>>
         /\ \A i \in DOMAIN LabelsOf(chosen.ent_or_prp) :
               Usable(qa_pair.q, LabelsOf(chosen.ent_or_prp)[i]) )
       => LET best == BestLabel(qa_pair.q, LabelsOf(chosen.ent_or_prp))
          IN  /\ chosen.kind = "label"
                    <=> FractionAtLeast(Score(qa_pair.q, best),
                                        fraction_match_threshold)
              /\ chosen.kind = "label" =>
                    /\ Len(code_points(chosen.match))
                          = LcsLength(qa_pair.q, best)
                    /\ chosen.match # <<>> =>
                          code_points(chosen.match)
                             \in CommonSubstrings(qa_pair.q, best)

\* C6: an identifier that has no label, or no label with a non-empty
\* longest common substring with the question, is rejected and its pair
\* fails, whatever the threshold: a label is only ever chosen with a
\* non-empty match.
C6_NoLabelFails ==
    ( /\ proc = "running"
      /\ chosen.kind \in {"label", "nullopt"}
      /\ \A i \in DOMAIN LabelsOf(chosen.ent_or_prp) :
            LcsLength(qa_pair.q, LabelsOf(chosen.ent_or_prp)[i]) = 0 )
    => /\ chosen.kind = "nullopt"
       /\ phase[counter + 1] = "FAILED"

\* The steps a pair's phase may take.
PhaseStep(from, to) ==
    \/ from = "PENDING" /\ to \in {"LABELS_CHOSEN", "FAILED"}
    \/ from = "LABELS_CHOSEN" /\ to \in {"COLLISION_CLEARED", "FAILED"}
    \/ from = "COLLISION_CLEARED" /\ to = "MASKED"

\* The sorted label matches of the current pair hold a neighbour that ends
\* at or after the start of the next one.
CollisionFound ==
    /\ proc = "running" /\ pc \in {"mask_q", "mask_a", "return", "failed"}
    /\ \E i \in DOMAIN label_matches :
          /\ i + 1 \in DOMAIN label_matches
          /\ label_matches[i].match_bounds[2]
                >= label_matches[i + 1].match_bounds[1]

\* C8: the phase of a pair only moves along PENDING -> LABELS_CHOSEN ->
\* COLLISION_CLEARED -> MASKED or to FAILED, and never leaves MASKED or
\* FAILED; a substitution in the question or the answer is only made for a
\* pair that has a label for each of its identifiers and has passed the
\* collision check; a pair with a rejected identifier or a collision is
\* FAILED; the output holds the pairs that are MASKED and no pair that is
\* FAILED.
C8_Phases ==
    /\ [][\A i \in DOMAIN phase :
             phase'[i] # phase[i] => PhaseStep(phase[i], phase'[i])]_vars
    /\ [][(MaskQuestion \/ MaskAnswer) =>
             /\ phase[counter + 1] = "COLLISION_CLEARED"
             /\ DOMAIN labels_map = question_entities_properties(qa_pair)
             /\ ~CollisionFound]_vars
    /\ [](chosen.kind = "nullopt" => phase[counter + 1] = "FAILED")
    /\ [](CollisionFound => phase[counter + 1] = "FAILED")
    /\ [](\A i \in DOMAIN phase :
             /\ phase[i] = "MASKED" <=> qa_pairs[i].uid \in DOMAIN json
             /\ phase[i] = "FAILED" => qa_pairs[i].uid \notin DOMAIN json)

\* One pair of the batch has failed and another has been masked with a mask
\* in its question.
C8_Witness ==
    \E i, j \in DOMAIN phase :
       /\ phase[i] = "FAILED"
       /\ phase[j] = "MASKED"
       /\ json[qa_pairs[j].uid].q # qa_pairs[j].q

\* C9: an error in the processing of one pair does not end the run of the
\* driver: the run goes on until it has been through every pair, and the
\* object it returns has an entry for exactly the pairs that were masked.
C9_BatchSurvivesErrors ==
    /\ proc \in {"running", "returned"}
    /\ proc = "returned" =>
          /\ counter = Len(qa_pairs)
          /\ \A i \in DOMAIN phase : phase[i] \in {"MASKED", "FAILED"}
          /\ DOMAIN json = { qa_pairs[i].uid :
                               i \in { k \in DOMAIN phase :
                                         phase[k] = "MASKED" } }

(***************************************************************************)
(* Properties of the suffix tree                                           *)
(***************************************************************************)

\* The code points of the string of a tree.
CodePointsOf(t) == { t.uni_str[k] : k \in DOMAIN t.uni_str }

\* The explicit states of a tree other than the auxiliary state.
StatesOf(t) == 2..Len(t.states)

TransitionsOf(t, s) == t.states[s].transitions

\* The transitions <<p, c>> that lead to state s.
Incoming(t, s) ==
    { pc_pair \in StatesOf(t) \X CodePointsOf(t) :
        /\ pc_pair[2] \in DOMAIN TransitionsOf(t, pc_pair[1])
        /\ TransitionsOf(t, pc_pair[1])[pc_pair[2]].child = s }

\* The string of an explicit state: the labels on the path from the root.
RECURSIVE StringOf(_, _)
StringOf(t, s) ==
    IF s = AUX_ROOT \/ Incoming(t, s) = {} THEN <<>>
    ELSE LET inc == CHOOSE pc_pair \in Incoming(t, s) : TRUE
             tr  == TransitionsOf(t, inc[1])[inc[2]]
         IN  StringOf(t, inc[1])
               \o SubSeq(t.uni_str, tr.left, right_value(t, tr.right))

IsLeaf(t, s) == s \in StatesOf(t) /\ DOMAIN TransitionsOf(t, s) = {}

IsInternal(t, s) == s \in StatesOf(t) /\ DOMAIN TransitionsOf(t, s) # {}

\* construct() has been through at least one iteration of its loop, which
\* ended or died.
StepTaken == tree_pc \in {"construct", "constructed_all"} /\ active.i >= 1

\* construct() has returned.
ConstructDone == tree_pc = "constructed_all"

C15_SuffixLinks ==
    StepTaken =>
       /\ tree.fault = NoFault
       /\ tree.root = AUX_ROOT
       /\ get_suffix_link(tree, AUX_ROOT) = AUX
       /\ \A s \in StatesOf(tree) \ {AUX_ROOT} :
             IsInternal(tree, s) =>
                /\ get_suffix_link(tree, s) \in StatesOf(tree)
                /\ StringOf(tree, get_suffix_link(tree, s))
                      = Tail(StringOf(tree, s))

\* The last code point of the string occurs nowhere else in it.
UniqueLast(uni_str) ==
    \A k \in 1..(Len(uni_str) - 1) : uni_str[k] # uni_str[Len(uni_str)]

\* C16: construct() on a string S of n code points whose last code point
\* occurs nowhere else returns, with a tree of exactly n leaves, one for
\* each suffix S[j..n].
C16_LeafCount ==
    ( /\ tree_pc \in {"construct", "constructed_all"}
      /\ UniqueLast(tree.uni_str)
      /\ tree.fault # NoFault \/ ConstructDone )
    => /\ tree.fault = NoFault
       /\ Cardinality({ s \in StatesOf(tree) : IsLeaf(tree, s) })
             = Len(tree.uni_str)
       /\ { StringOf(tree, s) :
              s \in { l \in StatesOf(tree) : IsLeaf(tree, l) } }
             = { SubSeq(tree.uni_str, j, Len(tree.uni_str)) :
                   j \in 1..Len(tree.uni_str) }

C18_AuxiliaryAndRoot ==
    tree_pc = "constructed" =>
       /\ \A c \in CodePointsOf(tree) :
             /\ has_transition(tree, AUX, c)
             /\ weakly_get_transition(tree, AUX, c).child = AUX_ROOT
             /\ weakly_get_transition(tree, AUX, c).left < 0
             /\ right_value(tree, weakly_get_transition(tree, AUX, c).right)
                   = weakly_get_transition(tree, AUX, c).left
       /\ \A c, d \in CodePointsOf(tree) :
             c # d => weakly_get_transition(tree, AUX, c).left
                         # weakly_get_transition(tree, AUX, d).left
       /\ \A c \in TreeAlphabet \ CodePointsOf(tree) :
             ~has_transition(tree, AUX, c)
       /\ tree.root # NULL
       /\ tree.root = AUX_ROOT
       /\ get_suffix_link(tree, AUX_ROOT) = AUX

\* The last call of set_transition was on a state that had a transition
\* under the first code point of the new label.
OverwritingCall ==
    /\ tree_pc' = "set_transition"
    /\ tree.fault = NoFault
    /\ tree.uni_str[active'.left_ptr]
          \in DOMAIN TransitionsOf(tree, active'.state)

NoPairUsable(a, b) ==
    /\ utf8_is_valid(a) /\ utf8_is_valid(b)
    /\ \A i \in DOMAIN separator_end_pairs :
          \E byte \in { separator_end_pairs[i][1],
                        separator_end_pairs[i][2] } :
             Occurs(a, byte) \/ Occurs(b, byte)

\* C11: when every candidate pair has a symbol that occurs in A or B,
\* longest_common_substring ends with an outcome of its own, which is
\* neither a string nor the absent value it returns for strings that have
\* nothing in common.
C11_NoUsableSeparator ==
    (LcsCalled /\ NoPairUsable(lcs_first, lcs_second))
       => lcs_result.kind \notin {"value", "nullopt"}

\* C12: with a usable pair, longest_common_substring(a, b) returns; what it
\* returns is absent exactly when a and b share no code point (as when one
\* of them is empty), and is never a present empty string.
C12_AbsentIffNothingShared ==
    (LcsCalled /\ LcsUsable) =>
       /\ lcs_result.kind \in {"value", "nullopt"}
       /\ lcs_result.kind = "nullopt"
             <=> CommonSubstrings(lcs_first, lcs_second) = {}
       /\ lcs_result.kind = "value" => lcs_result.str # <<>>

\* C13: for a non-empty string a with a usable pair,
\* longest_common_substring(a, a) returns a.
C13_Idempotence ==
    (LcsCalled /\ LcsUsable /\ lcs_first # <<>> /\ lcs_second = lcs_first)
       => /\ lcs_result.kind = "value"
          /\ lcs_result.str = lcs_first

\* u comes before v in the order of code points, for u and v equally long.
LexLess(u, v) ==
    \E k \in DOMAIN u :
       /\ u[k] < v[k]
       /\ \A j \in 1..(k - 1) : u[j] = v[j]

\* The common substrings of the greatest length.
LongestCommonSubstrings(a, b) ==
    { u \in CommonSubstrings(a, b) :
        \A v \in CommonSubstrings(a, b) : Len(v) <= Len(u) }

\* C20: of several common substrings of the greatest length,
\* longest_common_substring returns the one its traversal reaches first.
\* The traversal is depth first, takes the transitions of a state in
\* ascending order of their first code point, and replaces what it has
\* recorded by a strictly longer candidate only; the first it reaches is the
\* least in the order of code points.
C20_FirstLongestWins ==
    ( /\ LcsCalled /\ LcsUsable
      /\ CommonSubstrings(lcs_first, lcs_second) # {} )
    => /\ lcs_result.kind = "value"
       /\ code_points(lcs_result.str)
             \in LongestCommonSubstrings(lcs_first, lcs_second)
       /\ \A u \in LongestCommonSubstrings(lcs_first, lcs_second) :
             ~LexLess(u, code_points(lcs_result.str))

(***************************************************************************)
(* Properties of the construction                                          *)
(***************************************************************************)

\* The prefixes of a sequence, the empty one included.
Prefixes(seq) == { SubSeq(seq, 1, j) : j \in 0..Len(seq) }

\* The strings spelled by the paths that start at the root and end at an
\* explicit or an implicit state.
Spelled(t) == UNION { Prefixes(StringOf(t, s)) : s \in StatesOf(t) }

\* C21: step i of construct() ends, in a tree whose paths from the root
\* spell exactly the substrings of S[1..i].
C21_StepBuildsSTree ==
    StepTaken =>
       /\ tree.fault = NoFault
       /\ Spelled(tree)
             = Substrings(SubSeq(tree.uni_str, 1, active.i)) \cup {<<>>}

\* The string on a transition.
LabelOf(t, tr) == SubSeq(t.uni_str, tr.left, right_value(t, tr.right))

NoPoint == [ok |-> FALSE, state |-> NULL, rest |-> <<>>]

\* The point that spelling w from the explicit state s leads to: the last
\* explicit state on the way, and what is spelled on a transition beyond it.
\* From the auxiliary state, every code point leads to the root.
RECURSIVE PointOf(_, _, _)
PointOf(t, s, w) ==
    IF w = <<>> THEN [ok |-> TRUE, state |-> s, rest |-> <<>>]
    ELSE IF s = AUX THEN PointOf(t, AUX_ROOT, Tail(w))
    ELSE IF w[1] \notin DOMAIN TransitionsOf(t, s) THEN NoPoint
    ELSE LET tr    == TransitionsOf(t, s)[w[1]]
             label == LabelOf(t, tr)
         IN  IF Len(label) = 0 THEN NoPoint
             ELSE IF Len(label) <= Len(w)
             THEN IF SubSeq(w, 1, Len(label)) = label
                  THEN PointOf(t, tr.child,
                               SubSeq(w, Len(label) + 1, Len(w)))
                  ELSE NoPoint
             ELSE IF SubSeq(label, 1, Len(w)) = w
             THEN [ok |-> TRUE, state |-> s, rest |-> w]
             ELSE NoPoint

\* The reference pairs (s, (k, p)) that denote a point of the tree.
ReferencePairs(t) ==
    { pair \in ({AUX} \cup StatesOf(t)) \X (1..(Len(t.uni_str) + 1))
                  \X (0..Len(t.uni_str)) :
        /\ pair[3] >= pair[2] - 1
        /\ PointOf(t, pair[1], SubSeq(t.uni_str, pair[2], pair[3])).ok }

\* The canonical ones among them: s is the last explicit state on the way.
CanonicalPairs(t) ==
    { pair \in ReferencePairs(t) :
        PointOf(t, pair[1], SubSeq(t.uni_str, pair[2], pair[3])).state
           = pair[1] }

\* What C22 says of test_and_split(s, (k, p), c) on the tree t.
SplitsAsSpecified(t, s, k, p, c) ==
    LET r == test_and_split(t, s, k, p, c)
    IN  /\ r.tree.fault = NoFault
        /\ r.end_point => r.tree = t /\ r.r = s
        /\ (~r.end_point /\ k > p) => r.tree = t /\ r.r = s
        /\ (~r.end_point /\ k <= p) =>
              LET old == TransitionsOf(t, s)[t.uni_str[k]]
                  mid == old.left + p - k
              IN  /\ r.r \notin StatesOf(t)
                  /\ StatesOf(r.tree) = StatesOf(t) \cup {r.r}
                  /\ TransitionsOf(r.tree, s) =
                        [TransitionsOf(t, s) EXCEPT ![t.uni_str[k]] =
                            [left |-> old.left, right |-> Owned(mid),
                             child |-> r.r]]
                  /\ TransitionsOf(r.tree, r.r) =
                        (t.uni_str[mid + 1] :>
                           [left |-> mid + 1, right |-> old.right,
                            child |-> old.child])
                  /\ \A q \in StatesOf(t) \ {s} :
                        TransitionsOf(r.tree, q) = TransitionsOf(t, q)
                  /\ Spelled(r.tree) = Spelled(t)

CanonisesAsSpecified(t, s, k, p) ==
    LET c == canonised(t, s, k, p)
    IN  /\ c.tree.fault = NoFault
        /\ c.left_ptr >= k /\ c.left_ptr <= p + 1
        /\ PointOf(t, s, SubSeq(t.uni_str, k, c.left_ptr - 1))
              = [ok |-> TRUE, state |-> c.state, rest |-> <<>>]
        /\ \/ c.left_ptr > p
           \/ /\ c.state # AUX
              /\ t.uni_str[c.left_ptr] \in DOMAIN TransitionsOf(t, c.state)
              /\ Len(LabelOf(t, TransitionsOf(t, c.state)
                                   [t.uni_str[c.left_ptr]]))
                    > p - c.left_ptr + 1

\* C23: on the tree the constructor leaves and on the tree every step of
\* construct() ends in, canonised returns for every reference pair
\* (s, (k, p)), the auxiliary state as s included, a pair (s', k') such that
\* S[k..k'-1] leads from s exactly to the explicit state s', and either
\* k' > p or the transition of s' on S[k'] is longer than p - k' + 1.
C23_Canonised ==
    (tree_pc = "constructed" \/ StepTaken) =>
       /\ tree.fault = NoFault
       /\ \A pair \in ReferencePairs(tree) :
             CanonisesAsSpecified(tree, pair[1], pair[2], pair[3])

(***************************************************************************)
(* Properties of the traversal                                             *)
(***************************************************************************)

\* C = A sep B end in code points, for the pair that is selected.
ConcatOf(a, b) ==
    code_points(a) \o <<FirstUsablePair(a, b)[1]>>
       \o code_points(b) \o <<FirstUsablePair(a, b)[2]>>

\* The leaves below an explicit state.
LeavesBelow(t, v) ==
    { l \in StatesOf(t) :
        /\ IsLeaf(t, l)
        /\ StringOf(t, v) \in Prefixes(StringOf(t, l)) }

\* Where in C the suffix of a leaf starts (1-based).
SuffixStart(t, l) == Len(t.uni_str) - Len(StringOf(t, l)) + 1

\* The type of an internal state by the leaves below it; sep is where the
\* separator is in C (1-based).
TypeByLeaves(t, v, sep) ==
    LET first  == { l \in LeavesBelow(t, v) : SuffixStart(t, l) <= sep }
        second == { l \in LeavesBelow(t, v) : SuffixStart(t, l) > sep }
    IN  IF second = {} THEN FIRST
        ELSE IF first = {} THEN SECOND
        ELSE FIRST_AND_SECOND

\* What C24 says of the traversal of the tree t of C.
TypesAsSpecified(t, sep, end) ==
    /\ t.fault = NoFault
    /\ t.root = AUX_ROOT
    /\ \A v \in StatesOf(t) :
          IsInternal(t, v) =>
             LET visit == state_substring_type(t, v, 0, 0, 0,
                                               <<sep, end>>)
             IN  /\ visit.ok
                 /\ visit.type # UNDETERMINED
                 /\ visit.type = TypeByLeaves(t, v, sep)

C29_ConstructTerminates ==
    [](tree_pc = "construct"
          => <>(tree_pc = "constructed_all"
                   /\ tree.fault = NoFault
                   /\ active.i = Len(tree.uni_str)))

(***************************************************************************)
(* The masking loop as a function of what the call is given                *)
(***************************************************************************)

\* How many replacements the loop of
\* mask_single_entity_or_property_in_answer is followed through.
MaxReplacements == 6

\* mask_single_entity_or_property_in_answer, the whole while loop:
\* [fault, done, str]; done is FALSE when the loop is still replacing after
\* MaxReplacements replacements.
RECURSIVE answer_masked(_, _, _, _)
answer_masked(a, match, masks, replacements) ==
    LET next(step) ==
            IF step.fault # NoFault \/ ~step.success
            THEN [fault |-> step.fault, done |-> TRUE, str |-> step.str]
            ELSE IF replacements = MaxReplacements
            THEN [fault |-> NoFault, done |-> FALSE, str |-> step.str]
            ELSE answer_masked(step.str, match, masks, replacements + 1)
    IN  next(mask_single_entity_or_property_in_answer(a, match, masks))

\* The loop of masked_question_answer_pair over the label matches from the
\* match at idx on: [ok, q, a, mask_map].
RECURSIVE masking_loop(_, _, _, _, _, _, _)
masking_loop(q, a, matches, idx, ent_count, prp_count, masks) ==
    LET in_answer(mq) ==
            LET after(ma) ==
                    IF ma.fault # NoFault \/ ~ma.done
                    THEN [ok |-> FALSE, q |-> mq.q, a |-> ma.str,
                          mask_map |-> mq.mask_map]
                    ELSE masking_loop(mq.q, ma.str, matches, idx + 1,
                                      mq.ent_counter, mq.prp_counter,
                                      mq.mask_map)
            IN  after(answer_masked(a, matches[idx], mq.mask_map, 0))
    IN  IF idx > Len(matches)
        THEN [ok |-> TRUE, q |-> q, a |-> a, mask_map |-> masks]
        ELSE in_answer(mask_single_entity_or_property_in_question(
                           q, matches[idx], ent_count, prp_count, masks))

\* The answer after the identifiers of `order` have been replaced by their
\* masks, one after the other: [done, str].
RECURSIVE answer_in_order(_, _, _)
answer_in_order(a, order, masks) ==
    LET rest(ma) ==
            IF ma.fault # NoFault \/ ~ma.done
            THEN [done |-> FALSE, str |-> ma.str]
            ELSE answer_in_order(ma.str, Tail(order), masks)
    IN  IF order = <<>> THEN [done |-> TRUE, str |-> a]
        ELSE rest(answer_masked(a, [ent_or_prp |-> Head(order)], masks, 0))

\* The orders in which the elements of a set can be taken.
OrdersOf(set) ==
    { o \in [1..Cardinality(set) -> set] :
        \A i, j \in DOMAIN o : i # j => o[i] # o[j] }

\* C25: with the masks that the identifiers of a pair have been given,
\* replacing the identifiers in the answer by their masks gives the same
\* answer in whichever order the identifiers are taken: the answer of the
\* run is the answer of every order.
C25_OrderIrrelevant ==
    MaskingDone =>
       \A order \in OrdersOf(DOMAIN mask_map) :
          /\ answer_in_order(qa_pair.a, order, mask_map).done
          /\ answer_in_order(qa_pair.a, order, mask_map).str = replaced_a

C30_AnswerMaskingTerminates ==
    []((proc = "running" /\ pc = "mask_a") => <>(pc # "mask_a"))

(***************************************************************************)
(* Properties of the labelling task                                        *)
(***************************************************************************)

\* C27: perform_wikidata_entity_and_property_labels_request returns only
\* after a response with code 200; it sends the request again only after a
\* response with code 429, after a wait, for as long as 429 is the
\* response; a response with another code than 200 and 429 ends it with an
\* error, and no request is sent after it.
C27_RequestLoop ==
    LET n == Len(responses)
        last == responses[n]
    IN  /\ \A i \in 1..(n - 1) : responses[i] = 429
        /\ label_pc = "perform" =>
               slept = too_many_requests_seconds_to_wait * n
        /\ label_pc = "received" => (n > 0 /\ last = 200)
        /\ label_pc = "runtime_error" => (n > 0 /\ last \notin {200, 429})
        /\ (n > 0 /\ last = 200) =>
               label_pc \in {"received", "part", "returned"}
        /\ (n > 0 /\ last = 429) =>
               label_pc \in {"again", "perform", "curl_error"}
        /\ (n > 0 /\ last \notin {200, 429}) =>
               label_pc \in {"again", "runtime_error"}

\* A request is about to return after two responses 429, two waits, and a
\* response 200.
C27_Witness ==
    /\ label_pc = "received"
    /\ responses = <<429, 429, 200>>
    /\ slept = 2 * too_many_requests_seconds_to_wait

\* C28: for a set of identifiers that is not empty and a part size of at
\* least 1, entity_property_partitioning returns parts that are pairwise
\* disjoint, whose union is the set, each of at least 1 and at most
\* part_size identifiers, and all but the last of exactly part_size; a
\* negative part size is rejected with std::invalid_argument.
C28_Partitioning ==
    label_pc \notin {"idle", "start"} =>
       LET parts == DOMAIN partitioning
       IN  /\ (require_labelling # {} /\ part_size >= 1) =>
                  /\ label_pc \notin {"invalid_argument", "sigfpe"}
                  /\ \A i, j \in parts :
                        i # j => partitioning[i] \cap partitioning[j] = {}
                  /\ UNION { partitioning[i] : i \in parts } =
                        require_labelling
                  /\ \A i \in parts :
                        /\ Cardinality(partitioning[i]) >= 1
                        /\ Cardinality(partitioning[i]) <= part_size
                        /\ i < Len(partitioning) =>
                              Cardinality(partitioning[i]) = part_size
           /\ part_size < 0 => label_pc = "invalid_argument"

====
